---- MODULE Spec2Model ----
(***************************************************************************)
(* BreakLoop social coordination core: the invite ledger                   *)
(* (src/utils/invites.js), the friend-request store                        *)
(* (src/utils/friendRequests.js), the event-update log                     *)
(* (src/utils/eventUpdates.js), the inbox projection (src/utils/inbox.js)  *)
(* and the private conversations (src/utils/privateMessages.js)            *)
(* over localStorage, with the App.js handlers that compose them.          *)
(*                                                                         *)
(* Each localStorage key is one variable holding the parsed collection.    *)
(* Date.now() is the variable `now`; every Math.random() draw is an input  *)
(* chosen from RandStr, so two draws may coincide.                         *)
(***************************************************************************)
EXTENDS Integers, Sequences, FiniteSets, TLC

VARIABLES
    now,            \* the clock read by Date.now()
    invites,        \* localStorage 'friend_invites_v1'
    requests,       \* localStorage 'friend_requests_v1'
    updates,        \* localStorage 'event_updates_v1'
    friendsList,    \* App.js state: the friend entries of the local account
    marked,         \* history: tokens markInviteAsUsed was applied to while an invite had them
    tokenRequests,  \* history: per token, the friend requests created by opening it
    ownOpened,      \* history: tokens whose opening by the inviter was rejected
    conversations,  \* localStorage 'private_messages_v1': the conversations in key order
    returned,       \* what the last call of the conversation store returned
    setItemThrows,  \* localStorage.setItem throws (quota exceeded, storage disabled)
    getItemThrows,  \* localStorage.getItem throws, or returns bytes JSON.parse rejects
    tabs            \* per execution context: the call of the update log it is inside

vars ==
    <<now, invites, requests, updates, friendsList, marked, tokenRequests, ownOpened,
      conversations, returned, setItemThrows, getItemThrows, tabs>>

----------------------------------------------------------------------------
(* Bounds of the model *)

MaxClock == 2
MaxInvites == 2
MaxRequests == 2
MaxUpdates == 2
MaxConversations == 2
MaxMessages == 2

(* Input sets *)

Users == {"u1", "u2"}

\* Non-empty outputs of Math.random().toString(36).substr(2, n)
RandStr == {"a", "b"}

\* The draws used where one value is enough (an id no operation reads, the
\* second half of a token)
TailStr == {"a"}

\* Tokens a caller may present: the ones the generator can produce, one it
\* cannot, and the empty string
Tokens == {r1 \o r2 : r1 \in RandStr, r2 \in TailStr}

PresentedTokens == Tokens \cup {"zz", ""}

ActivityIds == {"e1", "e2"}

UserName(u) == <<"name", u>>

\* JavaScript null / a missing result
Null == [null |-> TRUE]

\* Object spread {...r, ...s}
Spread(r, s) ==
    [f \in (DOMAIN r) \cup (DOMAIN s) |-> IF f \in DOMAIN s THEN s[f] ELSE r[f]]

\* Array.prototype.map
Map(seq, F(_)) == [i \in 1..Len(seq) |-> F(seq[i])]

\* Array.prototype.find, with `|| null`
Find(seq, P(_)) ==
    LET hits == {i \in 1..Len(seq) : P(seq[i])}
    IN  IF hits = {} THEN Null
        ELSE seq[CHOOSE i \in hits : \A j \in hits : i <= j]

----------------------------------------------------------------------------
(* The localStorage keys: const STORAGE_KEY of each module. A collection is a
   variable of its own because its key differs from the other three. *)

\* Mutant: the conversations are stored under the key of the invites
STORAGE_KEY_OfTheInvites == "friend_invites_v1"

INVITES_STORAGE_KEY == "friend_invites_v1"

FRIEND_REQUESTS_STORAGE_KEY == "friend_requests_v1"

EVENT_UPDATES_STORAGE_KEY == "event_updates_v1"

PRIVATE_MESSAGES_STORAGE_KEY == "private_messages_v1"

\* The key each collection is read from and written to
StorageKey ==
    [ invites |-> INVITES_STORAGE_KEY,
      requests |-> FRIEND_REQUESTS_STORAGE_KEY,
      updates |-> EVENT_UPDATES_STORAGE_KEY,
      conversations |-> PRIVATE_MESSAGES_STORAGE_KEY ]

----------------------------------------------------------------------------
(* Invite ledger: src/utils/invites.js *)

generateInviteId(r) == <<"inv", now, r>>

generateInviteToken(r1, r2) == r1 \o r2

loadInvites == IF getItemThrows THEN <<>> ELSE invites

saveInvites(invs) == invites' = IF setItemThrows THEN invites ELSE invs

\* The invite object createInvite builds
newInvite(fromUserId, fromUserName, r, r1, r2) ==
    [ id |-> generateInviteId(r),
      token |-> generateInviteToken(r1, r2),
      fromUserId |-> fromUserId,
      fromUserName |-> fromUserName,
      createdAt |-> now,
      status |-> "active" ]

createInvite(fromUserId, fromUserName, r, r1, r2) ==
    saveInvites(Append(loadInvites, newInvite(fromUserId, fromUserName, r, r1, r2)))

findInviteByToken(token) ==
    Find(loadInvites, LAMBDA inv : inv.token = token)

\* Mutant: the updated list is built but the list as loaded is saved
markInviteAsUsed_SavesLoaded(token, usedByUserId) ==
    saveInvites(loadInvites)

\* Mutant: the comparison of the tokens is inverted
markInviteAsUsed_MarksOthers(token, usedByUserId) ==
    saveInvites(Map(loadInvites, LAMBDA inv :
        IF inv.token # token
        THEN Spread(inv, [status |-> "used", usedByUserId |-> usedByUserId, usedAt |-> now])
        ELSE inv))

\* Mutant: the consumer and the stamp are written but the status is kept
markInviteAsUsed_KeepsStatus(token, usedByUserId) ==
    saveInvites(Map(loadInvites, LAMBDA inv :
        IF inv.token = token
        THEN Spread(inv, [usedByUserId |-> usedByUserId, usedAt |-> now])
        ELSE inv))

markInviteAsUsed(token, usedByUserId) ==
    saveInvites(Map(loadInvites, LAMBDA inv :
        IF inv.token = token
        THEN Spread(inv, [status |-> "used", usedByUserId |-> usedByUserId, usedAt |-> now])
        ELSE inv))

\* Mutant: the check of the used status is missing
validateInvite_NoUsedCheck(token) ==
    IF token = ""
    THEN [valid |-> FALSE, reason |-> "No invite token provided"]
    ELSE LET invite == findInviteByToken(token)
         IN  IF invite = Null
             THEN [valid |-> FALSE, reason |-> "Invite not found"]
             ELSE IF invite.status = "expired"
             THEN [valid |-> FALSE, reason |-> "This invite has expired"]
             ELSE [valid |-> TRUE, invite |-> invite]

validateInvite(token) ==
    IF token = ""
    THEN [valid |-> FALSE, reason |-> "No invite token provided"]
    ELSE LET invite == findInviteByToken(token)
         IN  IF invite = Null
             THEN [valid |-> FALSE, reason |-> "Invite not found"]
             ELSE IF invite.status = "used"
             THEN [valid |-> FALSE, reason |-> "This invite is no longer valid"]
             ELSE IF invite.status = "expired"
             THEN [valid |-> FALSE, reason |-> "This invite has expired"]
             ELSE [valid |-> TRUE, invite |-> invite]

----------------------------------------------------------------------------
(* Friend-request store: src/utils/friendRequests.js *)

generateFriendRequestId(r) == <<"freq", now, r>>

loadFriendRequests == IF getItemThrows THEN <<>> ELSE requests

saveFriendRequests(reqs) == requests' = IF setItemThrows THEN requests ELSE reqs

\* The request object createFriendRequest builds
newFriendRequest(fromUserId, fromUserName, toUserId, toUserName, r) ==
    [ id |-> generateFriendRequestId(r),
      fromUserId |-> fromUserId,
      fromUserName |-> fromUserName,
      toUserId |-> toUserId,
      toUserName |-> toUserName,
      status |-> "pending",
      createdAt |-> now ]

createFriendRequest(fromUserId, fromUserName, toUserId, toUserName, r) ==
    saveFriendRequests(Append(loadFriendRequests,
        newFriendRequest(fromUserId, fromUserName, toUserId, toUserName, r)))

\* Mutant: only the direction userId1 -> userId2 is looked up
findExistingRequest_OneDirection(userId1, userId2) ==
    Find(loadFriendRequests, LAMBDA req :
        /\ req.status = "pending"
        /\ req.fromUserId = userId1 /\ req.toUserId = userId2)

\* Mutant: the reverse direction compares both ends with userId2
findExistingRequest_ReverseTypo(userId1, userId2) ==
    Find(loadFriendRequests, LAMBDA req :
        /\ req.status = "pending"
        /\ \/ (req.fromUserId = userId1 /\ req.toUserId = userId2)
           \/ (req.fromUserId = userId2 /\ req.toUserId = userId2))

findExistingRequest(userId1, userId2) ==
    Find(loadFriendRequests, LAMBDA req :
        /\ req.status = "pending"
        /\ \/ (req.fromUserId = userId1 /\ req.toUserId = userId2)
           \/ (req.fromUserId = userId2 /\ req.toUserId = userId1))

areAlreadyFriends(userId1, userId2, list) ==
    \E f \in list : f.id = userId2 /\ f.status = "accepted"

\* Mutant: the store is filtered down to the request that was updated
updateFriendRequestStatus_KeepsOnlyTarget(requestId, newStatus) ==
    saveFriendRequests(SelectSeq(
        Map(loadFriendRequests, LAMBDA req :
            IF req.id = requestId THEN [req EXCEPT !.status = newStatus] ELSE req),
        LAMBDA req : req.id = requestId))

updateFriendRequestStatus(requestId, newStatus) ==
    saveFriendRequests(Map(loadFriendRequests, LAMBDA req :
        IF req.id = requestId THEN [req EXCEPT !.status = newStatus] ELSE req))

\* Mutant: the status is not looked at
getPendingRequestsForUser_AnyStatus(userId) ==
    SelectSeq(loadFriendRequests, LAMBDA req : req.toUserId = userId)

getPendingRequestsForUser(userId) ==
    SelectSeq(loadFriendRequests, LAMBDA req :
        req.toUserId = userId /\ req.status = "pending")

----------------------------------------------------------------------------
(* Event-update log: src/utils/eventUpdates.js *)

PreviewLength == 50

\* A chat text of n characters, the first n of "bcdefgabcdefga..."
Text(n) == [i \in 1..n |-> <<"a", "b", "c", "d", "e", "f", "g">>[(i % 7) + 1]]

\* The texts a participant may send: as long as the preview, one character
\* longer, and much longer
ChatTexts == {Text(50), Text(51), Text(120)}

generateUpdateId(r) == <<"upd", now, r>>

\* Mutant: the update is born resolved
createEventUpdate_Resolved(type, eventId, actorId, actorName, message, r) ==
    [ id |-> generateUpdateId(r),
      type |-> type,
      eventId |-> eventId,
      actorId |-> actorId,
      actorName |-> actorName,
      message |-> message,
      createdAt |-> now,
      resolved |-> TRUE ]

createEventUpdate(type, eventId, actorId, actorName, message, r) ==
    [ id |-> generateUpdateId(r),
      type |-> type,
      eventId |-> eventId,
      actorId |-> actorId,
      actorName |-> actorName,
      message |-> message,
      createdAt |-> now,
      resolved |-> FALSE ]

loadEventUpdates == IF getItemThrows THEN <<>> ELSE updates

\* Mutant: the key is removed before it is written, so a failed write leaves
\* an empty log
saveEventUpdates_RemovesFirst(upds) == updates' = IF setItemThrows THEN <<>> ELSE upds

\* try { localStorage.setItem(...) } catch (err) { console.warn(...) }
saveEventUpdates(upds) == updates' = IF setItemThrows THEN updates ELSE upds

\* Mutant: updates.unshift(update), the update goes to the front
addedEventUpdates_Unshifts(update) == <<update>> \o loadEventUpdates

\* The list addEventUpdate saves and returns
addedEventUpdates(update) == Append(loadEventUpdates, update)

addEventUpdate(update) == saveEventUpdates(addedEventUpdates(update))

\* Mutant: a text as long as the preview is cut as well
chatPreview_CutsAtLength(messageText) ==
    IF Len(messageText) >= PreviewLength
    THEN SubSeq(messageText, 1, PreviewLength) \o <<".", ".", ".">>
    ELSE messageText

chatPreview(messageText) ==
    IF Len(messageText) > PreviewLength
    THEN SubSeq(messageText, 1, PreviewLength) \o <<".", ".", ".">>
    ELSE messageText

emitEventChatUpdate(eventId, senderId, senderName, messageText, r) ==
    addEventUpdate(createEventUpdate("event_chat", eventId, senderId, senderName,
                                     chatPreview(messageText), r))

emitJoinRequestUpdate(eventId, requesterId, requesterName, r) ==
    addEventUpdate(createEventUpdate("join_request", eventId, requesterId, requesterName, Null, r))

emitJoinApprovedUpdate(eventId, hostId, hostName, r) ==
    addEventUpdate(createEventUpdate("join_approved", eventId, hostId, hostName, Null, r))

emitJoinDeclinedUpdate(eventId, hostId, hostName, r) ==
    addEventUpdate(createEventUpdate("join_declined", eventId, hostId, hostName, Null, r))

emitEventUpdatedUpdate(eventId, editorId, editorName, changeDescription, r) ==
    addEventUpdate(createEventUpdate("event_updated", eventId, editorId, editorName,
                                     changeDescription, r))

emitEventCancelledUpdate(eventId, hostId, hostName, r) ==
    addEventUpdate(createEventUpdate("event_cancelled", eventId, hostId, hostName, Null, r))

emitParticipantLeftUpdate(eventId, participantId, participantName, r) ==
    addEventUpdate(createEventUpdate("participant_left", eventId, participantId,
                                     participantName, Null, r))

\* Added to eventUpdates.js with the friend-request feature; eventId is the request id
friendRequestUpdate(requestId, actorId, actorName, r) ==
    createEventUpdate("friend_request", requestId, actorId, actorName,
                      <<actorName, " wants to add you as a friend">>, r)

emitFriendRequestUpdate(requestId, actorId, actorName, r) ==
    addEventUpdate(friendRequestUpdate(requestId, actorId, actorName, r))

----------------------------------------------------------------------------
(* Inbox projection: src/utils/inbox.js *)

\* Mutant: the flag of the matching entries is flipped instead of set
resolvedUpdates_Toggles(allUpdates, updateId) ==
    Map(allUpdates, LAMBDA update :
        IF update.id = updateId THEN [update EXCEPT !.resolved = ~update.resolved] ELSE update)

\* resolveUpdate: const updated = allUpdates.map(...)
resolvedUpdates(allUpdates, updateId) ==
    Map(allUpdates, LAMBDA update :
        IF update.id = updateId THEN [update EXCEPT !.resolved = TRUE] ELSE update)

resolveUpdate(updateId) ==
    saveEventUpdates(resolvedUpdates(loadEventUpdates, updateId))

\* Mutant: the test of the event is missing, every entry is resolved
resolvedByEvent_ResolvesAll(allUpdates, eventId) ==
    Map(allUpdates, LAMBDA update : [update EXCEPT !.resolved = TRUE])

\* resolveUpdatesByEvent: const updated = allUpdates.map(...)
resolvedByEvent(allUpdates, eventId) ==
    Map(allUpdates, LAMBDA update :
        IF update.eventId = eventId THEN [update EXCEPT !.resolved = TRUE] ELSE update)

resolveUpdatesByEvent(eventId) ==
    saveEventUpdates(resolvedByEvent(loadEventUpdates, eventId))

\* Mutant: resolved is assigned the match, so entries out of scope are reopened
resolveUpdatesByEventAndType_Assigns(eventId, type) ==
    saveEventUpdates(Map(loadEventUpdates, LAMBDA update :
        [update EXCEPT !.resolved = (update.eventId = eventId /\ update.type = type)]))

\* resolveUpdatesByEventAndType: const updated = allUpdates.map(...)
resolvedByEventAndType(allUpdates, eventId, type) ==
    Map(allUpdates, LAMBDA update :
        IF update.eventId = eventId /\ update.type = type
        THEN [update EXCEPT !.resolved = TRUE]
        ELSE update)

resolveUpdatesByEventAndType(eventId, type) ==
    saveEventUpdates(resolvedByEventAndType(loadEventUpdates, eventId, type))

\* Mutant: oldest first
sortedByCreatedAt_Ascending(list) ==
    LET rank(i) == Cardinality({j \in 1..Len(list) :
                       \/ list[j].createdAt < list[i].createdAt
                       \/ (list[j].createdAt = list[i].createdAt /\ j < i)}) + 1
    IN  [k \in 1..Len(list) |-> list[CHOOSE i \in 1..Len(list) : rank(i) = k]]

\* .sort((a, b) => b.createdAt - a.createdAt): Array.prototype.sort is stable,
\* so an entry goes after every entry with a larger createdAt and after the
\* entries with an equal createdAt that precede it in the list
sortedByCreatedAt(list) ==
    LET rank(i) == Cardinality({j \in 1..Len(list) :
                       \/ list[j].createdAt > list[i].createdAt
                       \/ (list[j].createdAt = list[i].createdAt /\ j < i)}) + 1
    IN  [k \in 1..Len(list) |-> list[CHOOSE i \in 1..Len(list) : rank(i) = k]]

getUnresolvedUpdates ==
    sortedByCreatedAt(SelectSeq(loadEventUpdates, LAMBDA update : ~update.resolved))

\* Mutant: the badge counts the whole log
getUnresolvedCount_CountsLog == Len(loadEventUpdates)

getUnresolvedCount == Len(getUnresolvedUpdates)

----------------------------------------------------------------------------
(* Private conversations: src/utils/privateMessages.js *)

\* User ids are strings; here a string is the sequence of its characters, and
\* CodeUnit gives the UTF-16 code unit the default sort compares
CodeUnit ==
    [c \in {"0", "1", "2", "_", "u"} |->
        CASE c = "0" -> 48 [] c = "1" -> 49 [] c = "2" -> 50 [] c = "_" -> 95 [] c = "u" -> 117]

\* The users who write to each other: "u1", "u10" and "u2"
ConvUsers == { <<"u", "1">>, <<"u", "1", "0">>, <<"u", "2">> }

\* The string a sorts strictly before the string b
Before(a, b) ==
    \/ Len(a) < Len(b) /\ SubSeq(b, 1, Len(a)) = a
    \/ \E k \in 1..Len(a) :
          /\ k <= Len(b)
          /\ SubSeq(a, 1, k - 1) = SubSeq(b, 1, k - 1)
          /\ CodeUnit[a[k]] < CodeUnit[b[k]]

\* [userId1, userId2].sort()
sortedIds(userId1, userId2) ==
    IF Before(userId2, userId1) THEN <<userId2, userId1>> ELSE <<userId1, userId2>>

\* Mutant: the ids are joined in the order given
getConversationId_Unsorted(userId1, userId2) ==
    <<"c", "o", "n", "v", "_">> \o userId1 \o <<"_">> \o userId2

\* `conv_${sorted[0]}_${sorted[1]}`
getConversationId(userId1, userId2) ==
    LET sorted == sortedIds(userId1, userId2)
    IN  <<"c", "o", "n", "v", "_">> \o sorted[1] \o <<"_">> \o sorted[2]

\* A timestamp field that is null or was never set; <<t>> is the timestamp t
Absent == <<>>

loadPrivateConversations == IF getItemThrows THEN <<>> ELSE conversations

savePrivateConversations(convs) == conversations' = IF setItemThrows THEN conversations ELSE convs

\* conversations[conversationId], Null when the key is missing
conversationOf(convs, conversationId) ==
    Find(convs, LAMBDA conv : conv.id = conversationId)

\* The object getOrCreateConversation stores under a missing key
newConversation(userId1, userId2) ==
    [ id |-> getConversationId(userId1, userId2),
      participantIds |-> sortedIds(userId1, userId2),
      messages |-> <<>>,
      createdAt |-> now,
      lastMessageAt |-> Absent,
      lastReadAt |-> Absent ]

\* Mutant: the conversation is stored without looking the key up
getOrCreateConversation_AlwaysCreates(userId1, userId2) ==
    /\ savePrivateConversations(
           Append(loadPrivateConversations, newConversation(userId1, userId2)))
    /\ returned' = newConversation(userId1, userId2)

getOrCreateConversation(userId1, userId2) ==
    LET conversationId == getConversationId(userId1, userId2)
        convs == loadPrivateConversations
    IN  IF conversationOf(convs, conversationId) = Null
        THEN /\ savePrivateConversations(Append(convs, newConversation(userId1, userId2)))
             /\ returned' = newConversation(userId1, userId2)
        ELSE /\ UNCHANGED conversations
             /\ returned' = conversationOf(convs, conversationId)

\* const newMessage of addMessageToConversation
newMessage(conversationId, message, r) ==
    [ id |-> <<"msg", now, r>>,
      conversationId |-> conversationId,
      senderId |-> message.senderId,
      senderName |-> message.senderName,
      text |-> message.text,
      createdAt |-> now ]

\* Mutant: the message takes the place of the messages stored so far
withMessage_Replaces(conversation, message) ==
    [conversation EXCEPT !.messages = <<message>>,
                         !.lastMessageAt = <<message.createdAt>>]

\* Mutant: the message is pushed without the lastMessageAt stamp
withMessage_NoStamp(conversation, message) ==
    [conversation EXCEPT !.messages = Append(@, message)]

\* The conversation after messages.push(newMessage) and the lastMessageAt stamp
withMessage(conversation, message) ==
    [conversation EXCEPT !.messages = Append(@, message),
                         !.lastMessageAt = <<message.createdAt>>]

\* The map with the conversation stored under its key replaced
withConversation(convs, conversation) ==
    Map(convs, LAMBDA conv : IF conv.id = conversation.id THEN conversation ELSE conv)

\* Mutant: a missing conversation is created with the message in it
addMessageToConversation_CreatesMissing(conversationId, message, r) ==
    LET convs == loadPrivateConversations
        found == conversationOf(convs, conversationId)
        base == IF found = Null
                THEN [ id |-> conversationId, participantIds |-> <<>>, messages |-> <<>>,
                       createdAt |-> now, lastMessageAt |-> Absent, lastReadAt |-> Absent ]
                ELSE found
        updated == withMessage(base, newMessage(conversationId, message, r))
    IN  /\ savePrivateConversations(
               IF found = Null THEN Append(convs, updated) ELSE withConversation(convs, updated))
        /\ returned' = updated

addMessageToConversation(conversationId, message, r) ==
    LET convs == loadPrivateConversations
        conversation == conversationOf(convs, conversationId)
    IN  IF conversation = Null
        THEN /\ UNCHANGED conversations
             /\ returned' = Null
        ELSE LET updated == withMessage(conversation,
                                        newMessage(conversationId, message, r))
             IN  /\ savePrivateConversations(withConversation(convs, updated))
                 /\ returned' = updated

\* (x || 0) of a timestamp field
OrZero(x) == IF x = Absent THEN 0 ELSE x[1]

\* Mutant: the conversations without messages are listed too
getAllConversationsSorted_NoFilter ==
    LET list == loadPrivateConversations
        rank(i) == Cardinality({j \in 1..Len(list) :
                       \/ OrZero(list[j].lastMessageAt) > OrZero(list[i].lastMessageAt)
                       \/ (OrZero(list[j].lastMessageAt) = OrZero(list[i].lastMessageAt) /\ j < i)}) + 1
    IN  [k \in 1..Len(list) |-> list[CHOOSE i \in 1..Len(list) : rank(i) = k]]

\* Mutant: the comparator subtracts the other way round, oldest first
getAllConversationsSorted_Ascending ==
    LET list == SelectSeq(loadPrivateConversations, LAMBDA conv : Len(conv.messages) > 0)
        rank(i) == Cardinality({j \in 1..Len(list) :
                       \/ OrZero(list[j].lastMessageAt) < OrZero(list[i].lastMessageAt)
                       \/ (OrZero(list[j].lastMessageAt) = OrZero(list[i].lastMessageAt) /\ j < i)}) + 1
    IN  [k \in 1..Len(list) |-> list[CHOOSE i \in 1..Len(list) : rank(i) = k]]

\* Object.values(conversations).filter(...).sort((a, b) =>
\* (b.lastMessageAt || 0) - (a.lastMessageAt || 0)), the sort being stable
getAllConversationsSorted ==
    LET list == SelectSeq(loadPrivateConversations, LAMBDA conv : Len(conv.messages) > 0)
        rank(i) == Cardinality({j \in 1..Len(list) :
                       \/ OrZero(list[j].lastMessageAt) > OrZero(list[i].lastMessageAt)
                       \/ (OrZero(list[j].lastMessageAt) = OrZero(list[i].lastMessageAt) /\ j < i)}) + 1
    IN  [k \in 1..Len(list) |-> list[CHOOSE i \in 1..Len(list) : rank(i) = k]]

\* Mutant: the time the conversation was created is stored as the read time
markConversationAsRead_StampsCreation(conversationId) ==
    LET convs == loadPrivateConversations
        conversation == conversationOf(convs, conversationId)
    IN  IF conversation = Null
        THEN /\ UNCHANGED conversations
             /\ returned' = Null
        ELSE LET updated == [conversation EXCEPT !.lastReadAt = <<conversation.createdAt>>]
             IN  /\ savePrivateConversations(withConversation(convs, updated))
                 /\ returned' = updated

markConversationAsRead(conversationId) ==
    LET convs == loadPrivateConversations
        conversation == conversationOf(convs, conversationId)
    IN  IF conversation = Null
        THEN /\ UNCHANGED conversations
             /\ returned' = Null
        ELSE LET updated == [conversation EXCEPT !.lastReadAt = <<now>>]
             IN  /\ savePrivateConversations(withConversation(convs, updated))
                 /\ returned' = updated

\* Mutant: a message stamped with the very millisecond of the read counts as
\* arrived after it
isConversationUnread_NotStrict(conversation, currentUserId) ==
    IF conversation = Null \/ Len(conversation.messages) = 0
    THEN FALSE
    ELSE LET lastMessage == conversation.messages[Len(conversation.messages)]
         IN  IF lastMessage.senderId = currentUserId THEN FALSE
             ELSE IF conversation.lastReadAt = Absent \/ conversation.lastReadAt[1] = 0
                  THEN TRUE
                  ELSE lastMessage.createdAt >= conversation.lastReadAt[1]

\* !conversation.lastReadAt is true of a missing field, of null and of 0
isConversationUnread(conversation, currentUserId) ==
    IF conversation = Null \/ Len(conversation.messages) = 0
    THEN FALSE
    ELSE LET lastMessage == conversation.messages[Len(conversation.messages)]
         IN  IF lastMessage.senderId = currentUserId THEN FALSE
             ELSE IF conversation.lastReadAt = Absent \/ conversation.lastReadAt[1] = 0
                  THEN TRUE
                  ELSE lastMessage.createdAt > conversation.lastReadAt[1]

\* Object.values(conversations) filtered to the conversations with messages
\* that are unread for currentUserId
unreadConversations(currentUserId) ==
    SelectSeq(SelectSeq(loadPrivateConversations, LAMBDA conv : Len(conv.messages) > 0),
              LAMBDA conv : isConversationUnread(conv, currentUserId))

getUnreadConversationCount(currentUserId) == Len(unreadConversations(currentUserId))

----------------------------------------------------------------------------
(* App.js handlers composing the stores (src/App.js, described in               *)
(* FRIEND_INVITATION_IMPLEMENTATION.md and FRIEND_REQUEST_IMPLEMENTATION.md)    *)

\* Mutant: the comparison of invite.fromUserId with the acting user is missing
handleOpenInviteLink_NoOwnCheck(token, currentUserId, r, r2) ==
    LET validation == validateInvite(token)
    IN  IF ~validation.valid
        THEN UNCHANGED <<invites, requests, updates>>
        ELSE LET invite == validation.invite
                 request == newFriendRequest(currentUserId, UserName(currentUserId),
                                             invite.fromUserId, invite.fromUserName, r)
             IN  /\ markInviteAsUsed(token, currentUserId)
                 /\ createFriendRequest(currentUserId, UserName(currentUserId),
                                        invite.fromUserId, invite.fromUserName, r)
                 /\ emitFriendRequestUpdate(request.id, currentUserId,
                                            UserName(currentUserId), r2)

\* handleOpenInviteLink(token) run by the logged-in user currentUserId
handleOpenInviteLink(token, currentUserId, r, r2) ==
    LET validation == validateInvite(token)
    IN  IF ~validation.valid
        THEN UNCHANGED <<invites, requests, updates>>
        ELSE IF validation.invite.fromUserId = currentUserId
        THEN UNCHANGED <<invites, requests, updates>>
        ELSE LET invite == validation.invite
                 request == newFriendRequest(currentUserId, UserName(currentUserId),
                                             invite.fromUserId, invite.fromUserName, r)
             IN  /\ markInviteAsUsed(token, currentUserId)
                 /\ createFriendRequest(currentUserId, UserName(currentUserId),
                                        invite.fromUserId, invite.fromUserName, r)
                 /\ emitFriendRequestUpdate(request.id, currentUserId,
                                            UserName(currentUserId), r2)

\* The eligibility policy of the "Add friend" button (shouldShowAddFriend)
shouldShowAddFriend(currentUserId, participantId) ==
    IF participantId = currentUserId THEN FALSE
    ELSE IF areAlreadyFriends(currentUserId, participantId, friendsList) THEN FALSE
    ELSE IF findExistingRequest(currentUserId, participantId) # Null THEN FALSE
    ELSE TRUE

\* handleAddFriend(participant) run by the logged-in user currentUserId
handleAddFriend(currentUserId, participantId, r, r2) ==
    IF ~shouldShowAddFriend(currentUserId, participantId)
    THEN UNCHANGED <<requests, updates>>
    ELSE LET request == newFriendRequest(currentUserId, UserName(currentUserId),
                                         participantId, UserName(participantId), r)
         IN  /\ createFriendRequest(currentUserId, UserName(currentUserId),
                                    participantId, UserName(participantId), r)
             /\ emitFriendRequestUpdate(request.id, currentUserId, UserName(currentUserId), r2)

\* handleAcceptFriendRequest(update), update being a friend_request entry of the inbox
handleAcceptFriendRequest(update) ==
    /\ updateFriendRequestStatus(update.eventId, "accepted")
    /\ friendsList' = friendsList \cup
           {[id |-> update.actorId, name |-> update.actorName, status |-> "accepted"]}
    /\ resolveUpdate(update.id)

\* handleDeclineFriendRequest(update)
handleDeclineFriendRequest(update) ==
    /\ updateFriendRequestStatus(update.eventId, "declined")
    /\ resolveUpdate(update.id)
    /\ UNCHANGED friendsList

\* handleChatOpened(eventId): the Chat tab of the activity was opened
handleChatOpened(eventId) ==
    resolveUpdatesByEventAndType(eventId, "event_chat")

\* handleUpdateClick(update): the user taps an entry of the Updates tab. A chat
\* update opens the Chat tab; a join request and a friend request open their
\* review surface and wait for the decision; every other update resolves on
\* opening the activity, either alone (resolveUpdate) or with the updates of
\* its type for the event (resolveUpdatesByEventAndType).
handleUpdateClick(update, byType) ==
    IF update.type = "event_chat" THEN handleChatOpened(update.eventId)
    ELSE IF update.type \in {"join_request", "friend_request"} THEN UNCHANGED updates
    ELSE IF byType THEN resolveUpdatesByEventAndType(update.eventId, update.type)
    ELSE resolveUpdate(update.id)

\* handleAcceptRequest: the host accepts a join request of the event; the
\* requester is told and the join_request updates of the event resolve
handleAcceptRequest(eventId, hostId, r) ==
    saveEventUpdates(Append(
        resolvedByEventAndType(loadEventUpdates, eventId, "join_request"),
        createEventUpdate("join_approved", eventId, hostId, UserName(hostId), Null, r)))

\* handleDeclineRequest: the host declines a join request of the event
handleDeclineRequest(eventId, hostId, r) ==
    saveEventUpdates(Append(
        resolvedByEventAndType(loadEventUpdates, eventId, "join_request"),
        createEventUpdate("join_declined", eventId, hostId, UserName(hostId), Null, r)))

----------------------------------------------------------------------------
(* Migration of the old chatMessages format *)

MinuteMs == 60000

\* msg.sender === 'me' ? currentUserId : friendId
migratedSender(msg, currentUserId, friendId) ==
    IF msg.sender = "me" THEN currentUserId ELSE friendId

\* The message built from messages[index] (index counted from 0 as in the
\* code) when Date.now() reads t; the read for a generated id is taken to be
\* the same as the one for createdAt. A legacy id is <<n>>, a missing one
\* Absent.
migratedMessage(msg, index, length, conversationId, currentUserId, friendId, t) ==
    [ id |-> IF msg.id # Absent THEN msg.id ELSE <<"msg_migrated", t, index>>,
      conversationId |-> conversationId,
      senderId |-> migratedSender(msg, currentUserId, friendId),
      senderName |-> IF msg.sender = "me" THEN "You" ELSE "Friend",
      text |-> msg.text,
      createdAt |-> t - (length - index) * MinuteMs ]

\* conversations[conversationId] = {...} for one legacy entry. Date.now() is
\* read once for every message and once more for createdAt of the
\* conversation: reads[base + 1], ..., reads[base + length + 1]. The object
\* has no lastReadAt.
migratedConversation(friendId, messages, currentUserId, reads, base) ==
    LET conversationId == getConversationId(currentUserId, friendId)
        length == Len(messages)
        migratedMessages ==
            [k \in 1..length |->
                migratedMessage(messages[k], k - 1, length, conversationId,
                                currentUserId, friendId, reads[base + k])]
    IN  [ id |-> conversationId,
          participantIds |-> sortedIds(currentUserId, friendId),
          messages |-> migratedMessages,
          createdAt |-> reads[base + length + 1] - length * MinuteMs,
          lastMessageAt |->
              IF migratedMessages[length].createdAt # 0
              THEN <<migratedMessages[length].createdAt>>
              ELSE <<reads[base + length + 1]>>,
          lastReadAt |-> Absent ]

\* conversations[key] = conversation on an object whose keys are in a sequence
putConversation(convs, conversation) ==
    IF conversationOf(convs, conversation.id) = Null
    THEN Append(convs, conversation)
    ELSE withConversation(convs, conversation)

\* Object.entries(oldChatMessages).forEach(...): the entries are those of
\* `old` in order, an entry being <<friendId, messages>>
RECURSIVE migratedFrom(_, _, _, _, _)
migratedFrom(old, k, currentUserId, reads, base) ==
    IF k > Len(old) THEN <<>>
    ELSE LET friendId == old[k][1]
             messages == old[k][2]
         IN  IF Len(messages) = 0
             THEN migratedFrom(old, k + 1, currentUserId, reads, base)
             ELSE LET conversation ==
                          migratedConversation(friendId, messages, currentUserId, reads, base)
                      rest == migratedFrom(old, k + 1, currentUserId, reads,
                                           base + Len(messages) + 1)
                  IN  <<conversation>> \o rest

RECURSIVE putAll(_, _)
putAll(convs, list) ==
    IF list = <<>> THEN convs ELSE putAll(putConversation(convs, Head(list)), Tail(list))

migrateOldChatMessages(oldChatMessages, currentUserId, reads) ==
    putAll(<<>>, migratedFrom(oldChatMessages, 1, currentUserId, reads, 0))

----------------------------------------------------------------------------
(* Two execution contexts (browser tabs) on one localStorage *)

Tabs == {"tab1", "tab2"}

\* A context that is inside no call of the update log
Idle == [pc |-> "idle", op |-> "none", update |-> Null, updateId |-> <<>>, loaded |-> <<>>]

\* Mutant: the write takes the log as it is stored when the write happens
written_Rereads(t) ==
    IF tabs[t].op = "add"
    THEN Append(loadEventUpdates, tabs[t].update)
    ELSE resolvedUpdates(loadEventUpdates, tabs[t].updateId)

\* The array a context passes to saveEventUpdates: the one it loaded, after
\* updates.push(update) of addEventUpdate or the map of resolveUpdate
written(t) ==
    IF tabs[t].op = "add"
    THEN Append(tabs[t].loaded, tabs[t].update)
    ELSE resolvedUpdates(tabs[t].loaded, tabs[t].updateId)

----------------------------------------------------------------------------
(* The state machine *)

\* Date.now() counts the milliseconds since 1970 and is positive: the clock
\* starts at 1
Init ==
    /\ now = 1
    /\ invites = <<>>
    /\ requests = <<>>
    /\ updates = <<>>
    /\ friendsList = {}
    /\ marked = {}
    /\ tokenRequests = [t \in PresentedTokens |-> 0]
    /\ ownOpened = {}
    /\ conversations = <<>>
    /\ returned = Null
    /\ setItemThrows = FALSE
    /\ getItemThrows = FALSE
    /\ tabs = [t \in Tabs |-> Idle]

\* Time passes between two calls
Tick ==
    /\ now < MaxClock
    /\ now' = now + 1
    /\ UNCHANGED <<invites, requests, updates, friendsList, marked, tokenRequests, ownOpened, setItemThrows, getItemThrows, tabs, conversations, returned>>

CreateInvite ==
    \E u \in Users, r \in TailStr, r1 \in RandStr, r2 \in TailStr :
        /\ Len(invites) < MaxInvites
        /\ createInvite(u, UserName(u), r, r1, r2)
        /\ UNCHANGED <<now, requests, updates, friendsList, marked, tokenRequests, ownOpened, setItemThrows, getItemThrows, tabs, conversations, returned>>

MarkInviteAsUsed ==
    \E token \in PresentedTokens, u \in Users :
        /\ markInviteAsUsed(token, u)
        /\ marked' = IF findInviteByToken(token) # Null THEN marked \cup {token} ELSE marked
        /\ UNCHANGED <<now, requests, updates, friendsList, tokenRequests, ownOpened, setItemThrows, getItemThrows, tabs, conversations, returned>>

\* The user opens a link to an invite that validates and is their own
OwnInvite(token, u) ==
    /\ validateInvite(token).valid
    /\ validateInvite(token).invite.fromUserId = u

\* User u opens the link of `token`. No operation of the ledger reads the ids
\* of the request and of its update, so one draw for each is enough here.
OpenInviteLink(token, u) ==
    \E r \in TailStr, r2 \in TailStr :
        /\ Len(requests) < MaxRequests
        /\ Len(updates) < MaxUpdates
        /\ handleOpenInviteLink(token, u, r, r2)
        /\ tokenRequests' =
               [tokenRequests EXCEPT ![token] = @ + (Len(requests') - Len(requests))]
        /\ marked' = IF invites' # invites THEN marked \cup {token} ELSE marked
        /\ ownOpened' = IF OwnInvite(token, u) THEN ownOpened \cup {token} ELSE ownOpened
        /\ UNCHANGED <<now, friendsList, conversations, returned, setItemThrows, getItemThrows, tabs>>

HandleOpenInviteLink ==
    \E token \in PresentedTokens, u \in Users : OpenInviteLink(token, u)

CreateFriendRequest ==
    \E from \in Users, to \in Users, r \in RandStr :
        /\ Len(requests) < MaxRequests
        /\ createFriendRequest(from, UserName(from), to, UserName(to), r)
        /\ UNCHANGED <<now, invites, updates, friendsList, marked, tokenRequests, ownOpened, setItemThrows, getItemThrows, tabs, conversations, returned>>

\* Request ids a caller may pass: those in the store and one that is not
RequestIds == {requests[i].id : i \in 1..Len(requests)} \cup {<<"freq", 0, "none">>}

UpdateFriendRequestStatus ==
    \E requestId \in RequestIds, newStatus \in {"accepted", "declined"} :
        /\ updateFriendRequestStatus(requestId, newStatus)
        /\ UNCHANGED <<now, invites, updates, friendsList, marked, tokenRequests, ownOpened, setItemThrows, getItemThrows, tabs, conversations, returned>>

HandleAddFriend ==
    \E u \in Users, participant \in Users, r \in RandStr, r2 \in RandStr :
        /\ Len(requests) < MaxRequests
        /\ Len(updates) < MaxUpdates
        /\ handleAddFriend(u, participant, r, r2)
        /\ UNCHANGED <<now, invites, friendsList, marked, tokenRequests, ownOpened, setItemThrows, getItemThrows, tabs, conversations, returned>>

\* The friend_request entries the inbox shows
FriendRequestUpdates ==
    {updates[i] : i \in {j \in 1..Len(updates) :
        updates[j].type = "friend_request" /\ ~updates[j].resolved}}

HandleAcceptFriendRequest ==
    \E update \in FriendRequestUpdates :
        /\ handleAcceptFriendRequest(update)
        /\ UNCHANGED <<now, invites, marked, tokenRequests, ownOpened, setItemThrows, getItemThrows, tabs, conversations, returned>>

HandleDeclineFriendRequest ==
    \E update \in FriendRequestUpdates :
        /\ handleDeclineFriendRequest(update)
        /\ UNCHANGED <<now, invites, marked, tokenRequests, ownOpened, setItemThrows, getItemThrows, tabs, conversations, returned>>

NextInvites ==
    \/ Tick
    \/ CreateInvite
    \/ MarkInviteAsUsed
    \/ HandleOpenInviteLink

SpecInvites == Init /\ [][NextInvites]_vars

\* The friend-request store called directly
NextFriendStore ==
    \/ Tick
    \/ CreateFriendRequest
    \/ UpdateFriendRequestStatus

SpecFriendStore == Init /\ [][NextFriendStore]_vars

\* The friend-request store behind the App.js handlers, which check eligibility
NextFriends ==
    \/ Tick
    \/ UpdateFriendRequestStatus
    \/ HandleAddFriend
    \/ HandleAcceptFriendRequest
    \/ HandleDeclineFriendRequest

SpecFriends == Init /\ [][NextFriends]_vars

----------------------------------------------------------------------------
(* The event-update log and the inbox *)

UPDATE_TYPES ==
    { "event_chat", "join_request", "join_approved", "join_declined",
      "event_updated", "event_cancelled", "participant_left" }

\* The user whose action an update reports
Actors == {"u2"}

\* The changeDescription an editor gives
ChangeDescriptions == << <<"time changed">> >>

\* Update ids a caller may pass: those in the log and one that is not
UpdateIds == {updates[i].id : i \in 1..Len(updates)} \cup {<<"upd", 0, "none">>}

\* Event ids a caller may pass: the activities and one no update refers to
EventIds == ActivityIds \cup {"e0"}

InboxFrame == UNCHANGED <<now, invites, requests, friendsList, marked, tokenRequests, ownOpened, setItemThrows, getItemThrows, tabs, conversations, returned>>

\* emitEventChatUpdate is called with messageText
EmitChat(messageText) ==
    \E eventId \in ActivityIds, a \in Actors, r \in RandStr :
        /\ Len(updates) < MaxUpdates
        /\ emitEventChatUpdate(eventId, a, UserName(a), messageText, r)
        /\ InboxFrame

EmitEventChatUpdate ==
    \E messageText \in ChatTexts : EmitChat(messageText)

EmitJoinRequestUpdate ==
    \E eventId \in ActivityIds, a \in Actors, r \in RandStr :
        /\ Len(updates) < MaxUpdates
        /\ emitJoinRequestUpdate(eventId, a, UserName(a), r)
        /\ InboxFrame

EmitJoinApprovedUpdate ==
    \E eventId \in ActivityIds, a \in Actors, r \in RandStr :
        /\ Len(updates) < MaxUpdates
        /\ emitJoinApprovedUpdate(eventId, a, UserName(a), r)
        /\ InboxFrame

EmitJoinDeclinedUpdate ==
    \E eventId \in ActivityIds, a \in Actors, r \in RandStr :
        /\ Len(updates) < MaxUpdates
        /\ emitJoinDeclinedUpdate(eventId, a, UserName(a), r)
        /\ InboxFrame

EmitEventUpdatedUpdate ==
    \E eventId \in ActivityIds, a \in Actors, d \in DOMAIN ChangeDescriptions, r \in RandStr :
        /\ Len(updates) < MaxUpdates
        /\ emitEventUpdatedUpdate(eventId, a, UserName(a), ChangeDescriptions[d], r)
        /\ InboxFrame

EmitEventCancelledUpdate ==
    \E eventId \in ActivityIds, a \in Actors, r \in RandStr :
        /\ Len(updates) < MaxUpdates
        /\ emitEventCancelledUpdate(eventId, a, UserName(a), r)
        /\ InboxFrame

EmitParticipantLeftUpdate ==
    \E eventId \in ActivityIds, a \in Actors, r \in RandStr :
        /\ Len(updates) < MaxUpdates
        /\ emitParticipantLeftUpdate(eventId, a, UserName(a), r)
        /\ InboxFrame

ResolveUpdate ==
    \E updateId \in UpdateIds :
        /\ resolveUpdate(updateId)
        /\ InboxFrame

ResolveUpdatesByEvent ==
    \E eventId \in EventIds :
        /\ resolveUpdatesByEvent(eventId)
        /\ InboxFrame

ResolveUpdatesByEventAndType ==
    \E eventId \in ActivityIds, type \in UPDATE_TYPES :
        /\ resolveUpdatesByEventAndType(eventId, type)
        /\ InboxFrame

NextInbox ==
    \/ Tick
    \/ EmitEventChatUpdate
    \/ EmitJoinRequestUpdate
    \/ EmitJoinApprovedUpdate
    \/ EmitJoinDeclinedUpdate
    \/ EmitEventUpdatedUpdate
    \/ EmitEventCancelledUpdate
    \/ EmitParticipantLeftUpdate
    \/ ResolveUpdate
    \/ ResolveUpdatesByEvent
    \/ ResolveUpdatesByEventAndType

SpecInbox == Init /\ [][NextInbox]_vars

\* The friend-request store and the event-update log side by side, each
\* called directly
\* The chat of an event as the inbox sees it
NextChat ==
    \/ Tick
    \/ EmitEventChatUpdate
    \/ ResolveUpdate
    \/ ResolveUpdatesByEventAndType

SpecChat == Init /\ [][NextChat]_vars

NextRecords ==
    \/ Tick
    \/ CreateFriendRequest
    \/ UpdateFriendRequestStatus
    \/ EmitJoinRequestUpdate
    \/ ResolveUpdate
    \/ ResolveUpdatesByEvent
    \/ ResolveUpdatesByEventAndType

SpecRecords == Init /\ [][NextRecords]_vars

\* Positions of the log holding an unresolved update
UnresolvedInLog == {i \in 1..Len(updates) : ~updates[i].resolved}

\* The Updates tab: what the user can do with the entries shown
UnresolvedUpdates == {updates[i] : i \in UnresolvedInLog}

HandleUpdateClick ==
    \E update \in UnresolvedUpdates, byType \in BOOLEAN :
        /\ handleUpdateClick(update, byType)
        /\ InboxFrame

HandleChatOpened ==
    \E eventId \in ActivityIds :
        /\ handleChatOpened(eventId)
        /\ InboxFrame

\* Events with a join request waiting for the host
RequestedEvents ==
    {updates[i].eventId : i \in {j \in UnresolvedInLog : updates[j].type = "join_request"}}

HandleAcceptRequest ==
    \E eventId \in RequestedEvents, r \in TailStr :
        /\ Len(updates) < MaxUpdates
        /\ handleAcceptRequest(eventId, "u1", r)
        /\ InboxFrame

HandleDeclineRequest ==
    \E eventId \in RequestedEvents, r \in TailStr :
        /\ Len(updates) < MaxUpdates
        /\ handleDeclineRequest(eventId, "u1", r)
        /\ InboxFrame

\* The inbox driven through the App.js handlers
NextInboxUI ==
    \/ Tick
    \/ EmitEventChatUpdate
    \/ EmitJoinRequestUpdate
    \/ EmitEventCancelledUpdate
    \/ HandleAddFriend
    \/ HandleUpdateClick
    \/ HandleChatOpened
    \/ HandleAcceptRequest
    \/ HandleDeclineRequest
    \/ HandleAcceptFriendRequest
    \/ HandleDeclineFriendRequest

SpecInboxUI == Init /\ [][NextInboxUI]_vars

----------------------------------------------------------------------------
(* The private conversation store *)

ConvFrame ==
    UNCHANGED <<now, invites, requests, updates, friendsList, marked, tokenRequests, ownOpened, setItemThrows, getItemThrows, tabs>>

\* Conversation ids a caller may pass: every pair's id, stored or not
ConversationIds == {getConversationId(a, b) : a \in ConvUsers, b \in ConvUsers}

\* The messages a user may send
Messages == {[senderId |-> u, senderName |-> <<"name", u>>, text |-> "hi"] : u \in ConvUsers}

\* All messages stored
StoredMessages ==
    LET RECURSIVE Sum(_)
        Sum(k) == IF k = 0 THEN 0 ELSE Len(conversations[k].messages) + Sum(k - 1)
    IN  Sum(Len(conversations))

\* getOrCreateConversation(userId1, userId2) is called
GetOrCreate(userId1, userId2) ==
    /\ \/ conversationOf(conversations, getConversationId(userId1, userId2)) # Null
       \/ Len(conversations) < MaxConversations
    /\ getOrCreateConversation(userId1, userId2)
    /\ ConvFrame

GetOrCreateConversation ==
    \E userId1 \in ConvUsers, userId2 \in ConvUsers : GetOrCreate(userId1, userId2)

\* addMessageToConversation(conversationId, message) is called
AddMessage(conversationId) ==
    \E message \in Messages, r \in TailStr :
        /\ StoredMessages < MaxMessages
        /\ addMessageToConversation(conversationId, message, r)
        /\ ConvFrame

AddMessageToConversation ==
    \E conversationId \in ConversationIds : AddMessage(conversationId)

\* markConversationAsRead(conversationId) is called
MarkRead(conversationId) ==
    /\ markConversationAsRead(conversationId)
    /\ ConvFrame

MarkConversationAsRead ==
    \E conversationId \in ConversationIds : MarkRead(conversationId)

NextMessages ==
    \/ Tick
    \/ GetOrCreateConversation
    \/ AddMessageToConversation
    \/ MarkConversationAsRead

SpecMessages == Init /\ [][NextMessages]_vars

----------------------------------------------------------------------------
(* Conversations of users whose ids contain the separator *)

\* The user ids "1", "2", "1_1" and "1_2"
SeparatorUsers ==
    { <<"1">>, <<"2">>, <<"1", "_", "1">>, <<"1", "_", "2">> }

GetOrCreateWithSeparator ==
    \E userId1 \in SeparatorUsers, userId2 \in SeparatorUsers : GetOrCreate(userId1, userId2)

NextSeparator ==
    \/ Tick
    \/ GetOrCreateWithSeparator

SpecSeparator == Init /\ [][NextSeparator]_vars

----------------------------------------------------------------------------
(* The one-time migration *)

MaxLegacy == 2

CurrentUser == <<"u", "1">>

\* Messages of the old format: sender 'me' or not, a text, an id or none
LegacyMessages ==
    {[id |-> i, sender |-> sender, text |-> text] :
        i \in {Absent}, sender \in {"me", "them"}, text \in {"x", "y"}}
    \cup {[id |-> <<7>>, sender |-> "them", text |-> "x"]}

\* The arrays stored under a friend: none, up to MaxLegacy messages
LegacyArrays ==
    UNION {[1..n -> LegacyMessages] : n \in 0..MaxLegacy}

\* oldChatMessages: an entry for the friend "u2", with or without messages,
\* and before or after it possibly an entry for the friend "u10"
OldChatMessages ==
    LET second == { <<>> } \cup
                  { << <<<<"u", "1", "0">>, messages>> >> :
                        messages \in {<<>>, <<[id |-> Absent, sender |-> "me", text |-> "y"]>>} }
    IN  UNION { { << <<<<"u", "2">>, messages>> >> \o other,
                  other \o << <<<<"u", "2">>, messages>> >> } :
                    messages \in LegacyArrays, other \in second }

\* What the successive Date.now() calls of one migration may read: the clock
\* does not go back, and may advance between two reads
ClockReads ==
    {reads \in [1..(MaxLegacy + 3) -> now..MaxClock] :
        \A k \in 1..(MaxLegacy + 2) : reads[k] <= reads[k + 1]}

\* migrateOldChatMessages(oldChatMessages, currentUserId) is called and
\* returns; the object returned is kept in the field `migrated`, beside the
\* argument of the call and what the clock read during it
Migrate(oldChatMessages, reads) ==
    /\ returned' =
           [ migrated |-> migrateOldChatMessages(oldChatMessages, CurrentUser, reads),
             oldChatMessages |-> oldChatMessages,
             reads |-> reads ]
    /\ now' = reads[Len(reads)]
    /\ UNCHANGED <<invites, requests, updates, friendsList, marked, tokenRequests, ownOpened,
                   conversations, setItemThrows, getItemThrows, tabs>>

MigrateOldChatMessages ==
    \E oldChatMessages \in OldChatMessages, reads \in ClockReads :
        Migrate(oldChatMessages, reads)

NextMigrate ==
    \/ Tick
    \/ MigrateOldChatMessages

SpecMigrate == Init /\ [][NextMigrate]_vars

----------------------------------------------------------------------------
(* Calls of the update log from two contexts, a step for the read and a step
   for the write *)

TabFrame ==
    UNCHANGED <<now, invites, requests, friendsList, marked, tokenRequests, ownOpened,
                conversations, returned, setItemThrows, getItemThrows>>

\* addEventUpdate(update), first line: const updates = loadEventUpdates().
\* Neither addEventUpdate nor resolveUpdate reads eventId, so one activity is
\* enough here.
AddLoads(t) ==
    \E eventId \in {"e1"}, a \in Actors, r \in RandStr :
        /\ tabs[t].pc # "loaded"
        /\ Len(updates) < MaxUpdates
        /\ tabs' = [tabs EXCEPT ![t] =
                       [ pc |-> "loaded", op |-> "add",
                         update |-> createEventUpdate("join_request", eventId, a,
                                                      UserName(a), Null, r),
                         updateId |-> <<>>,
                         loaded |-> loadEventUpdates ]]
        /\ UNCHANGED updates
        /\ TabFrame

\* resolveUpdate(updateId), first line: const allUpdates = loadEventUpdates()
ResolveLoads(t) ==
    \E id \in UpdateIds :
        /\ tabs[t].pc # "loaded"
        /\ tabs' = [tabs EXCEPT ![t] =
                       [ pc |-> "loaded", op |-> "resolve", update |-> Null,
                         updateId |-> id, loaded |-> loadEventUpdates ]]
        /\ UNCHANGED updates
        /\ TabFrame

\* saveEventUpdates(...) of the call the context is in, and its return
Saves(t) ==
    /\ tabs[t].pc = "loaded"
    /\ saveEventUpdates(written(t))
    /\ tabs' = [tabs EXCEPT ![t].pc = "returned"]
    /\ TabFrame

TabAddLoads == \E t \in Tabs : AddLoads(t)

TabResolveLoads == \E t \in Tabs : ResolveLoads(t)

TabSaves == \E t \in Tabs : Saves(t)

NextTabs ==
    \/ Tick
    \/ TabAddLoads
    \/ TabResolveLoads
    \/ TabSaves

SpecTabs == Init /\ [][NextTabs]_vars

----------------------------------------------------------------------------
(* Storage faults *)

MaxStored == 2

\* From now on localStorage.setItem throws
SetItemStartsThrowing ==
    /\ ~setItemThrows
    /\ setItemThrows' = TRUE
    /\ UNCHANGED <<now, invites, requests, updates, friendsList, marked, tokenRequests,
                   ownOpened, conversations, returned, getItemThrows, tabs>>

\* Space was freed: localStorage.setItem works again
SetItemWorksAgain ==
    /\ setItemThrows
    /\ setItemThrows' = FALSE
    /\ UNCHANGED <<now, invites, requests, updates, friendsList, marked, tokenRequests,
                   ownOpened, conversations, returned, getItemThrows, tabs>>

\* The records in the four collections together
Stored ==
    Len(invites) + Len(requests) + Len(updates) + Len(conversations) + StoredMessages

\* The mutating operations of the four stores over a storage that may fail
NextFaults ==
    \/ Tick
    \/ SetItemStartsThrowing
    \/ SetItemWorksAgain
    \/ Stored < MaxStored /\ CreateInvite
    \/ MarkInviteAsUsed
    \/ Stored < MaxStored /\ CreateFriendRequest
    \/ UpdateFriendRequestStatus
    \/ Stored < MaxStored /\ EmitJoinRequestUpdate
    \/ ResolveUpdate
    \/ ResolveUpdatesByEvent
    \/ ResolveUpdatesByEventAndType
    \/ Stored < MaxStored /\ GetOrCreateConversation
    \/ Stored < MaxStored /\ AddMessageToConversation
    \/ MarkConversationAsRead

SpecFaults == Init /\ [][NextFaults]_vars

\* From now on the read of a collection fails and load* answers the empty
\* collection of its catch branch
GetItemStartsThrowing ==
    /\ ~getItemThrows
    /\ getItemThrows' = TRUE
    /\ UNCHANGED <<now, invites, requests, updates, friendsList, marked, tokenRequests,
                   ownOpened, conversations, returned, setItemThrows, tabs>>

\* The read of a collection works again
GetItemWorksAgain ==
    /\ getItemThrows
    /\ getItemThrows' = FALSE
    /\ UNCHANGED <<now, invites, requests, updates, friendsList, marked, tokenRequests,
                   ownOpened, conversations, returned, setItemThrows, tabs>>

\* Mutating operations over a storage whose reads may fail
NextReadFaults ==
    \/ Tick
    \/ GetItemStartsThrowing
    \/ GetItemWorksAgain
    \/ Stored < MaxStored /\ CreateInvite
    \/ Stored < MaxStored /\ CreateFriendRequest
    \/ Stored < MaxStored /\ EmitJoinRequestUpdate
    \/ ResolveUpdate

SpecReadFaults == Init /\ [][NextReadFaults]_vars

\* Every operation of the program
Next ==
    \/ NextInvites
    \/ NextFriendStore
    \/ NextFriends
    \/ NextInbox
    \/ NextRecords
    \/ NextInboxUI
    \/ NextChat
    \/ NextMessages
    \/ NextSeparator
    \/ NextMigrate
    \/ NextTabs
    \/ NextFaults
    \/ NextReadFaults

Spec == Init /\ [][Next]_vars

----------------------------------------------------------------------------
(* Properties of the invite ledger, checked under SpecInvites *)

UsedReply == [valid |-> FALSE, reason |-> "This invite is no longer valid"]

\* C1: once markInviteAsUsed has been applied to a token some invite carries,
\* validateInvite of that token answers valid:false with the 'already used'
\* reason, in that state and in every later one.
C1_UsedTokenStaysInvalid ==
    \A token \in marked : validateInvite(token) = UsedReply

\* A token was used, and an invite created afterwards (with the same token or
\* another) is in the ledger
C1_Witness ==
    \E token \in marked : \E i, j \in 1..Len(invites) :
        /\ invites[i].token = token
        /\ invites[i].status = "used"
        /\ i < j
        /\ invites[j].status = "active"
        /\ validateInvite(token) = UsedReply

\* C2: a second markInviteAsUsed on a token leaves usedAt and usedByUserId of
\* its invite as the first call set them.
C2_SecondMarkKeepsFirstUse ==
    [][\A i \in 1..Len(invites) :
          invites[i].status = "used" =>
              /\ invites'[i].usedAt = invites[i].usedAt
              /\ invites'[i].usedByUserId = invites[i].usedByUserId]_vars

\* C3: an invite whose status is used or expired is changed by no operation.
C3_TerminalInviteIsFrozen ==
    [][\A i \in 1..Len(invites) :
          invites[i].status \in {"used", "expired"} => invites'[i] = invites[i]]_vars

\* C4: no two invites of the ledger carry the same token.
C4_TokensAreUnique ==
    \A i, j \in 1..Len(invites) : i # j => invites[i].token # invites[j].token

\* C5: at most one friend request is ever created by opening a given token.
C5_AtMostOneRequestPerToken ==
    \A token \in PresentedTokens : tokenRequests[token] <= 1

\* A token has produced its request and no longer validates
C5_Witness ==
    \E token \in PresentedTokens :
        /\ tokenRequests[token] = 1
        /\ validateInvite(token) = UsedReply
        /\ \E i \in 1..Len(requests) : requests[i].toUserId = findInviteByToken(token).fromUserId

\* C6: when the inviter opens their own invite, the open-invite path neither
\* marks the invite used nor creates a friend request, so that step changes
\* neither store; and no request from a user to themselves exists.
C6_OwnInviteRejected ==
    /\ [](\A i \in 1..Len(requests) : requests[i].fromUserId # requests[i].toUserId)
    /\ [][\A token \in PresentedTokens, u \in Users :
             (OwnInvite(token, u) /\ OpenInviteLink(token, u))
                 => UNCHANGED <<invites, requests, marked>>]_vars

\* The inviter opened their own link, was turned away, and the invite still validates
C6_Witness ==
    \E token \in ownOpened :
        /\ validateInvite(token).valid
        /\ token \notin marked
        /\ tokenRequests[token] = 0

----------------------------------------------------------------------------
(* Properties of the friend-request store *)

Pair(req) == {req.fromUserId, req.toUserId}

\* C7: with every creation behind the eligibility policy (SpecFriends), there
\* is at most one pending request for any unordered pair of users.
C7_OnePendingPerPair ==
    \A i, j \in 1..Len(requests) :
        (i # j /\ requests[i].status = "pending" /\ requests[j].status = "pending")
            => Pair(requests[i]) # Pair(requests[j])

\* A pair asked again after a declined request: one declined, one pending
C7_Witness ==
    \E i, j \in 1..Len(requests) :
        /\ Pair(requests[i]) = Pair(requests[j])
        /\ requests[i].status = "declined"
        /\ requests[j].status = "pending"
        /\ findExistingRequest(requests[i].toUserId, requests[i].fromUserId) = requests[j]

\* C8: once a request is accepted or declined, no operation changes its status.
C8_StatusChangesOnce ==
    [][\A i \in 1..Len(requests) :
          requests[i].status # "pending" => requests'[i].status = requests[i].status]_vars

\* C9: findExistingRequest(a,b) and findExistingRequest(b,a) give the same
\* record or are both absent; a pending request is found from its receiver's side.
C9_FindExistingRequestSymmetric ==
    /\ \A a \in Users, b \in Users : findExistingRequest(a, b) = findExistingRequest(b, a)
    /\ \A i \in 1..Len(requests) :
           requests[i].status = "pending" =>
               LET found == findExistingRequest(requests[i].toUserId, requests[i].fromUserId)
               IN  /\ found # Null
                   /\ found.status = "pending"
                   /\ Pair(found) = Pair(requests[i])

\* createFriendRequest(u1, .., u2, ..) was called and findExistingRequest(u2, u1)
\* returns the record it created
C9_Witness ==
    \E i \in 1..Len(requests) :
        /\ requests[i].fromUserId = "u1"
        /\ requests[i].toUserId = "u2"
        /\ requests[i].status = "pending"
        /\ findExistingRequest("u2", "u1") = requests[i]

----------------------------------------------------------------------------
(* Properties of the event-update log, checked under SpecInbox *)

\* C10: an update that is resolved in the log stays in its place and stays
\* resolved after every operation.
C10_ResolvedIsMonotonic ==
    [][\A i \in 1..Len(updates) :
          updates[i].resolved =>
              /\ i <= Len(updates')
              /\ updates'[i].id = updates[i].id
              /\ updates'[i].resolved]_vars

\* A resolved update is followed in the log by an unresolved one of the same event
C10_Witness ==
    \E i, j \in 1..Len(updates) :
        /\ i < j
        /\ updates[i].resolved
        /\ ~updates[j].resolved
        /\ updates[i].eventId = updates[j].eventId

----------------------------------------------------------------------------
(* Properties of both persisted collections, checked under SpecRecords *)

----------------------------------------------------------------------------
(* Properties of the inbox projection, checked under SpecInbox *)

\* C12: resolveUpdate is idempotent: for every log and every update id, the
\* log saved by a second resolveUpdate(id) equals the log saved by the first.
C12_ResolveUpdateIdempotent ==
    \A updateId \in UpdateIds :
        LET once == resolvedUpdates(loadEventUpdates, updateId)
        IN  resolvedUpdates(once, updateId) = once

\* An update was resolved earlier, and resolving another id changes the log
C12_Witness ==
    /\ \E i \in 1..Len(updates) : updates[i].resolved
    /\ \E updateId \in UpdateIds :
           LET once == resolvedUpdates(loadEventUpdates, updateId)
           IN  /\ once # updates
               /\ resolvedUpdates(once, updateId) = once

\* C13: getUnresolvedCount() equals getUnresolvedUpdates().length and the
\* number of log entries with resolved = false; it is zero exactly when every
\* update of the log is resolved.
C13_CountMatchesLog ==
    /\ getUnresolvedCount = Len(getUnresolvedUpdates)
    /\ getUnresolvedCount = Cardinality(UnresolvedInLog)
    /\ (getUnresolvedCount = 0) <=> (\A i \in 1..Len(updates) : updates[i].resolved)

\* The log holds resolved and unresolved updates, and the count is not its length
C13_Witness ==
    /\ Len(updates) = MaxUpdates
    /\ getUnresolvedCount = 1
    /\ \E i \in 1..Len(updates) : updates[i].resolved

\* How many entries of a list equal x
Occurrences(list, x) == Cardinality({k \in 1..Len(list) : list[k] = x})

\* C14: getUnresolvedUpdates returns exactly the log entries with
\* resolved = false, each as often as the log holds it and none resolved,
\* ordered by createdAt non-increasing.
C14_UnresolvedSortedDescending ==
    LET result == getUnresolvedUpdates
    IN  /\ \A k \in 1..Len(result) : ~result[k].resolved
        /\ Len(result) = Cardinality(UnresolvedInLog)
        /\ \A i \in UnresolvedInLog :
               Occurrences(result, updates[i]) =
                   Cardinality({j \in UnresolvedInLog : updates[j] = updates[i]})
        /\ \A k \in 1..Len(result) : \E i \in UnresolvedInLog : result[k] = updates[i]
        /\ \A k \in 1..(Len(result) - 1) : result[k].createdAt >= result[k + 1].createdAt

\* Two unresolved updates of different times: the result is the log reversed
C14_Witness ==
    /\ Len(updates) >= 2
    /\ UnresolvedInLog = 1..Len(updates)
    /\ updates[1].createdAt < updates[Len(updates)].createdAt
    /\ getUnresolvedUpdates[1] = updates[Len(updates)]
    /\ getUnresolvedUpdates[Len(updates)] = updates[1]

\* Where x is in a list that holds it once
Position(list, x) == CHOOSE k \in 1..Len(list) : list[k] = x

\* C15: of two unresolved updates with equal createdAt, the one inserted
\* later into the log comes earlier in the result of getUnresolvedUpdates.
C15_TiesInReverseInsertionOrder ==
    \A i, j \in UnresolvedInLog :
        (/\ i < j
         /\ updates[i].createdAt = updates[j].createdAt
         /\ Occurrences(updates, updates[i]) = 1
         /\ Occurrences(updates, updates[j]) = 1)
            => Position(getUnresolvedUpdates, updates[j])
                   < Position(getUnresolvedUpdates, updates[i])

----------------------------------------------------------------------------
(* The resolution policy of the Updates tab, checked under SpecInboxUI *)

\* An update that waits for the viewer's decision
Undecided(update) == update.type \in {"join_request", "friend_request"} /\ ~update.resolved

\* C16: opening or viewing (a tap on an update, the Chat tab) never resolves a
\* join_request or friend_request update; such an update becomes resolved
\* only in a step that is an accept or a decline.
C16_RequestsResolveOnlyOnDecision ==
    [][/\ (HandleUpdateClick \/ HandleChatOpened) =>
              \A i \in 1..Len(updates) : Undecided(updates[i]) => Undecided(updates'[i])
       /\ (\E i \in 1..Len(updates) : Undecided(updates[i]) /\ updates'[i].resolved) =>
              \/ HandleAcceptRequest
              \/ HandleDeclineRequest
              \/ HandleAcceptFriendRequest
              \/ HandleDeclineFriendRequest]_vars

----------------------------------------------------------------------------
(* Properties of the private conversation store, checked under SpecMessages *)

\* C17: getConversationId(a, b) = getConversationId(b, a) for all user ids,
\* so both orders look up the same stored conversation.
C17_ConversationIdCommutative ==
    \A a \in ConvUsers, b \in ConvUsers :
        /\ getConversationId(a, b) = getConversationId(b, a)
        /\ conversationOf(conversations, getConversationId(a, b))
               = conversationOf(conversations, getConversationId(b, a))

\* The conversation of "u2" and "u10" is stored under conv_u10_u2, and the call
\* with the ids in the other order finds it
C17_Witness ==
    \E k \in 1..Len(conversations) :
        /\ conversations[k].id =
               <<"c", "o", "n", "v", "_", "u", "1", "0", "_", "u", "2">>
        /\ conversations[k].id = getConversationId(<<"u", "2">>, <<"u", "1", "0">>)
        /\ conversationOf(conversations, getConversationId(<<"u", "1", "0">>, <<"u", "2">>))
               = conversations[k]

\* The unordered pair of a conversation's participants
Participants(conv) == {conv.participantIds[1], conv.participantIds[2]}

\* C18: whatever getOrCreateConversation(a,b) and (b,a) calls were made, the
\* store holds one conversation per pair, under the id of the pair; a call for
\* a stored pair returns the stored conversation and changes nothing in it.
C18_GetOrCreateIdempotent ==
    /\ [](\A i, j \in 1..Len(conversations) :
             /\ conversations[i].id = getConversationId(conversations[i].participantIds[1],
                                                        conversations[i].participantIds[2])
             /\ (i # j => /\ conversations[i].id # conversations[j].id
                          /\ Participants(conversations[i]) # Participants(conversations[j])))
    /\ [][\A a \in ConvUsers, b \in ConvUsers :
             LET existing == conversationOf(conversations, getConversationId(b, a))
             IN  (existing # Null /\ GetOrCreate(a, b)) =>
                     /\ conversations' = conversations
                     /\ returned' = existing]_vars

\* The first of two stored conversations, still empty and unread, is what the
\* last call returned: only a getOrCreateConversation made after the second
\* conversation was created returns it
C18_Witness ==
    /\ Len(conversations) = 2
    /\ returned = conversations[1]
    /\ conversations[1].messages = <<>>
    /\ conversations[1].lastReadAt = Absent
    /\ conversations[1].createdAt < now
    /\ Len(conversations[2].messages) > 0

\* Ids under which nothing is stored
UnknownIds == {id \in ConversationIds : conversationOf(conversations, id) = Null}

\* C19: addMessageToConversation and markConversationAsRead on an id with no
\* stored conversation return null and leave the stored map as it was.
C19_UnknownConversationIsNoOp ==
    [][\A id \in UnknownIds :
          (AddMessage(id) \/ MarkRead(id)) =>
              /\ conversations' = conversations
              /\ returned' = Null]_vars

\* The last call returned null although conversations with messages are stored
C19_Witness ==
    /\ returned = Null
    /\ StoredMessages > 0
    /\ UnknownIds # {}

\* C20: getAllConversationsSorted() lists no conversation without messages
\* and lists every conversation with a message exactly once.
C20_SortedListsNonEmptyOnce ==
    LET result == getAllConversationsSorted
    IN  /\ \A k \in 1..Len(result) : Len(result[k].messages) > 0
        /\ \A i \in 1..Len(conversations) :
               Len(conversations[i].messages) > 0 =>
                   Cardinality({k \in 1..Len(result) : result[k] = conversations[i]}) = 1
        /\ \A k \in 1..Len(result) :
               \E i \in 1..Len(conversations) : result[k] = conversations[i]

\* An empty conversation is stored beside one with a message
C20_Witness ==
    /\ \E i \in 1..Len(conversations) : Len(conversations[i].messages) = 0
    /\ \E i \in 1..Len(conversations) : Len(conversations[i].messages) > 0
    /\ Len(getAllConversationsSorted) = 1
    /\ Len(conversations) = 2

\* C21: the list getAllConversationsSorted returns is ordered by lastMessageAt,
\* never increasing from one entry to the next, and a conversation whose
\* lastMessageAt is strictly later than that of every other listed
\* conversation is the first entry
C21_SortedByLastMessageDescending ==
    LET result == getAllConversationsSorted
    IN  /\ \A k \in 1..(Len(result) - 1) :
               OrZero(result[k].lastMessageAt) >= OrZero(result[k + 1].lastMessageAt)
        /\ \A i \in 1..Len(conversations) :
               ( /\ Len(conversations[i].messages) > 0
                 /\ \A j \in 1..Len(conversations) :
                        (j # i /\ Len(conversations[j].messages) > 0) =>
                            OrZero(conversations[i].lastMessageAt)
                                > OrZero(conversations[j].lastMessageAt) )
               => result[1] = conversations[i]

\* Two conversations hold a message each, the one stored second being the
\* more recent, so that the sort has to bring it to the front
C21_Witness ==
    /\ Len(conversations) = 2
    /\ Len(conversations[1].messages) > 0
    /\ Len(conversations[2].messages) > 0
    /\ OrZero(conversations[2].lastMessageAt) > OrZero(conversations[1].lastMessageAt)
    /\ getAllConversationsSorted = <<conversations[2], conversations[1]>>

\* C22: right after markConversationAsRead(c) on a stored conversation,
\* isConversationUnread(c, user) is false for every user, for the stored
\* conversation and for the one returned; and a conversation that was marked
\* read and is not unread for a user stays so through every step that
\* appends no message to it
C22_ReadUntilNextMessage ==
    [][ /\ \A c \in ConversationIds :
             (MarkRead(c) /\ conversationOf(conversations, c) # Null) =>
                 \A user \in ConvUsers :
                     /\ ~isConversationUnread(conversationOf(conversations', c), user)
                     /\ ~isConversationUnread(returned', user)
        /\ \A i \in 1..Len(conversations) : \A user \in ConvUsers :
             ( /\ conversations[i].lastReadAt # Absent
               /\ ~isConversationUnread(conversations[i], user)
               /\ conversations'[i].messages = conversations[i].messages )
             => ~isConversationUnread(conversations'[i], user) ]_vars

\* A conversation received a message after it was created and was then marked
\* read, in the millisecond of the message; nobody finds it unread
C22_Witness ==
    \E i \in 1..Len(conversations) :
        /\ Len(conversations[i].messages) = 1
        /\ conversations[i].messages[1].createdAt > conversations[i].createdAt
        /\ conversations[i].lastReadAt = <<now>>
        /\ returned = conversations[i]
        /\ \A user \in ConvUsers : ~isConversationUnread(conversations[i], user)

\* C23: isConversationUnread(conv, user) follows four rules in this order:
\* false when conv has no messages; false when the last message was sent by
\* user; true when conv was never read; otherwise true exactly when the last
\* message was created strictly after lastReadAt
C23_UnreadRuleOrder ==
    \A i \in 1..Len(conversations) : \A user \in ConvUsers :
        LET conv == conversations[i]
            unread == isConversationUnread(conv, user)
        IN  CASE conv.messages = <<>> -> unread = FALSE
              [] OTHER ->
                 LET last == conv.messages[Len(conv.messages)]
                 IN  CASE last.senderId = user -> unread = FALSE
                       [] conv.lastReadAt = Absent /\ last.senderId # user -> unread = TRUE
                       [] OTHER -> unread = (last.createdAt > conv.lastReadAt[1])

\* One conversation was never read and holds a message, another was read and
\* then received a message in a later millisecond: the sender rule, the
\* never-read rule and the timestamp rule all apply in this state
C23_Witness ==
    \E i, j \in 1..Len(conversations) :
        /\ Len(conversations[i].messages) = 1
        /\ conversations[i].lastReadAt = Absent
        /\ Len(conversations[j].messages) = 1
        /\ conversations[j].lastReadAt # Absent
        /\ conversations[j].messages[1].createdAt > conversations[j].lastReadAt[1]
        /\ \E user \in ConvUsers : isConversationUnread(conversations[j], user)
        /\ \E user \in ConvUsers : ~isConversationUnread(conversations[j], user)

\* C24: validateInvite answers 'no token' for the empty token, then 'not
\* found' when no invite carries the token, then 'already used' or 'expired'
\* by the status; it answers valid:true, with the invite, if and only if an
\* invite with that token exists and is active, so that a freshly created
\* invite validates until it is used
C24_ValidIffActiveInviteExists ==
    \A token \in PresentedTokens :
        LET reply == validateInvite(token)
            carrying == {i \in 1..Len(invites) : invites[i].token = token}
        IN  /\ token = "" => reply = [valid |-> FALSE, reason |-> "No invite token provided"]
            /\ (token # "" /\ carrying = {}) =>
                   reply = [valid |-> FALSE, reason |-> "Invite not found"]
            /\ reply.valid <=>
                   (token # "" /\ \E i \in carrying : invites[i].status = "active")
            /\ reply.valid =>
                   \E i \in carrying : reply.invite = invites[i] /\ invites[i].status = "active"
            /\ (~reply.valid /\ token # "" /\ carrying # {}) =>
                   reply.reason \in {"This invite is no longer valid", "This invite has expired"}

\* C25: emitEventChatUpdate stores as message the whole text when it has at
\* most 50 characters, and otherwise its first 50 characters followed by
\* '...'; a text of 120 characters is stored as 50 characters and the marker,
\* a text of 50 characters unchanged
C25_ChatPreviewCut ==
    [][\A messageText \in ChatTexts :
          EmitChat(messageText) =>
              LET stored == updates'[Len(updates')].message
              IN  /\ Len(updates') = Len(updates) + 1
                  /\ Len(messageText) <= 50 => stored = messageText
                  /\ Len(messageText) > 50 =>
                         /\ Len(stored) = 53
                         /\ \A k \in 1..50 : stored[k] = messageText[k]
                         /\ \A k \in 51..53 : stored[k] = "."]_vars

\* A text of 50 characters and then a longer one were sent to the chat
C25_Witness ==
    /\ Len(updates) = 2
    /\ updates[1].type = "event_chat"
    /\ updates[1].message = Text(50)
    /\ updates[2].type = "event_chat"
    /\ updates[2].message = Text(50) \o <<".", ".", ".">>

\* C26: while localStorage.setItem throws, every mutating operation
\* (createInvite, markInviteAsUsed, createFriendRequest,
\* updateFriendRequestStatus, addEventUpdate, the three resolve operations,
\* getOrCreateConversation, addMessageToConversation, markConversationAsRead)
\* returns and leaves the four persisted collections exactly as they were
C26_WriteFaultIsNoOp ==
    [][setItemThrows => UNCHANGED <<invites, requests, updates, conversations>>]_vars

\* With an invite and an update persisted, setItem throws and
\* getOrCreateConversation has returned a conversation that is not stored
C26_Witness ==
    /\ setItemThrows
    /\ Len(invites) = 1
    /\ Len(updates) = 1
    /\ returned # Null
    /\ conversationOf(conversations, returned.id) = Null

\* C27: with two execution contexts whose read / modify / write steps on the
\* update log interleave, the write of a context stores the log that context
\* read with its own change applied, whatever the other context has stored
\* in between: the last writer overwrites, and a state is reachable in which
\* both calls have returned and an appended update is missing from the log
C27_LastWriterOverwrites ==
    [][\A t \in Tabs :
          Saves(t) =>
              /\ tabs[t].op = "add" =>
                     updates' = Append(tabs[t].loaded, tabs[t].update)
              /\ tabs[t].op = "resolve" =>
                     /\ Len(updates') = Len(tabs[t].loaded)
                     /\ \A i \in 1..Len(updates') :
                            updates'[i] =
                                IF tabs[t].loaded[i].id = tabs[t].updateId
                                THEN [tabs[t].loaded[i] EXCEPT !.resolved = TRUE]
                                ELSE tabs[t].loaded[i]]_vars

\* Both contexts have returned from addEventUpdate, each with an update of its
\* own, and the log holds only one of the two
C27_Witness ==
    /\ \A t \in Tabs : tabs[t].pc = "returned" /\ tabs[t].op = "add"
    /\ tabs["tab1"].update.id # tabs["tab2"].update.id
    /\ Len(updates) = 1
    /\ \E t \in Tabs : \A i \in 1..Len(updates) : updates[i].id # tabs[t].update.id

\* One context has returned from addEventUpdate and the other from
\* resolveUpdate of an update stored before, which is still unresolved
C27_ResolveLost ==
    /\ tabs["tab1"].pc = "returned" /\ tabs["tab1"].op = "resolve"
    /\ tabs["tab2"].pc = "returned" /\ tabs["tab2"].op = "add"
    /\ Len(tabs["tab1"].loaded) = 1
    /\ tabs["tab1"].loaded[1].id = tabs["tab1"].updateId
    /\ Len(updates) = 2
    /\ updates[1].id = tabs["tab1"].updateId
    /\ updates[2] = tabs["tab2"].update
    /\ ~updates[1].resolved
    /\ updates[1].id # updates[2].id

\* C28: a mutator addressed by a key that matches no record changes nothing:
\* markInviteAsUsed with a token no invite carries leaves the ledger as it
\* was, resolveUpdate with an id no update has leaves the log as it was, and
\* updateFriendRequestStatus with an id no request has leaves the requests as
\* they were
C28_UnknownKeyIsNoOp ==
    [][ /\ \A token \in PresentedTokens, u \in Users :
             (markInviteAsUsed(token, u) /\ findInviteByToken(token) = Null)
                 => invites' = invites
        /\ \A updateId \in UpdateIds :
             ( /\ resolveUpdate(updateId)
               /\ \A i \in 1..Len(updates) : updates[i].id # updateId )
                 => updates' = updates
        /\ \A requestId \in RequestIds, newStatus \in {"accepted", "declined"} :
             ( /\ updateFriendRequestStatus(requestId, newStatus)
               /\ \A i \in 1..Len(requests) : requests[i].id # requestId )
                 => requests' = requests ]_vars

\* The storage works, an active invite and an unresolved update are stored,
\* and callers may present a token and an update id that match neither
C28_Witness ==
    /\ ~setItemThrows
    /\ Len(invites) = 1 /\ invites[1].status = "active"
    /\ Len(updates) = 1 /\ ~updates[1].resolved
    /\ \E token \in PresentedTokens : token # "" /\ findInviteByToken(token) = Null
    /\ \E updateId \in UpdateIds : updates[1].id # updateId

\* The log after resolved was set on the entries in scope and on no other
ResolvedOn(scope(_)) ==
    /\ Len(updates') = Len(updates)
    /\ \A i \in 1..Len(updates) :
           updates'[i] = IF scope(updates[i])
                         THEN [updates[i] EXCEPT !.resolved = TRUE]
                         ELSE updates[i]

\* C29: each resolve operation sets resolved on exactly the entries of its
\* scope and changes nothing else: resolveUpdate(id) on the entries with that
\* id, resolveUpdatesByEvent(e) on the entries of event e,
\* resolveUpdatesByEventAndType(e, t) on the entries of event e with type t;
\* the other entries and the other fields stay as they were, and a second
\* call of a bulk variant changes nothing more
C29_ResolveTouchesOnlyItsScope ==
    [][ /\ \A updateId \in UpdateIds :
             resolveUpdate(updateId) =>
                 ResolvedOn(LAMBDA update : update.id = updateId)
        /\ \A eventId \in EventIds :
             resolveUpdatesByEvent(eventId) =>
                 /\ ResolvedOn(LAMBDA update : update.eventId = eventId)
                 /\ resolvedByEvent(updates', eventId) = updates'
        /\ \A eventId \in EventIds, type \in UPDATE_TYPES :
             resolveUpdatesByEventAndType(eventId, type) =>
                 /\ ResolvedOn(LAMBDA update : update.eventId = eventId /\ update.type = type)
                 /\ resolvedByEventAndType(updates', eventId, type) = updates' ]_vars

\* Two updates of one event with different types: the one of the type that
\* was resolved is resolved, the other is not
C29_Witness ==
    /\ Len(updates) = 2
    /\ updates[1].eventId = updates[2].eventId
    /\ updates[1].type # updates[2].type
    /\ ~updates[1].resolved
    /\ updates[2].resolved
    /\ resolvedByEventAndType(updates, updates[2].eventId, updates[2].type) = updates
    /\ resolvedByEvent(updates, updates[1].eventId) # updates

\* C30: an update built by createEventUpdate (directly or in an emit helper)
\* is unresolved when it is added: right after the add it is one of the
\* entries of getUnresolvedUpdates(), and getUnresolvedCount() is one greater
\* than it was before the call
C30_AddedUpdateIsUnresolved ==
    [][Len(updates') = Len(updates) + 1 =>
          LET added == updates'[Len(updates')]
          IN  /\ ~added.resolved
              /\ \E k \in 1..Len(getUnresolvedUpdates') : getUnresolvedUpdates'[k] = added
              /\ getUnresolvedCount' = getUnresolvedCount + 1]_vars

\* An update was added to a log that held a resolved one: one entry of two
\* is listed, the added one
C30_Witness ==
    /\ Len(updates) = 2
    /\ updates[1].resolved
    /\ ~updates[2].resolved
    /\ updates[2].createdAt > updates[1].createdAt
    /\ getUnresolvedUpdates = <<updates[2]>>
    /\ getUnresolvedCount = 1

\* C31: addEventUpdate(u) returns the whole log as it is stored after the
\* call: the list returned equals the stored log, and the stored log is the
\* log stored before with u appended as its last element
C31_AddReturnsStoredLog ==
    [][Len(updates') = Len(updates) + 1 =>
          LET u == updates'[Len(updates')]
          IN  /\ updates' = Append(updates, u)
              /\ \A i \in 1..Len(updates) : updates'[i] = updates[i]
              /\ addedEventUpdates(u) = updates']_vars

\* The log holds two updates that differ, the second added in a later
\* millisecond than the first
C31_Witness ==
    /\ Len(updates) = 2
    /\ updates[1].createdAt < updates[2].createdAt
    /\ updates[1].type # updates[2].type
    /\ ~updates[2].resolved

\* C32: getPendingRequestsForUser(u) returns exactly the records with
\* toUserId = u and status pending, in the order of the store; and after
\* updateFriendRequestStatus(id, accepted or declined) the pending request
\* with that id is returned neither by getPendingRequestsForUser of its
\* recipient nor by findExistingRequest of its two users, in either order
C32_DecidedRequestLeavesPending ==
    /\ [](\A u \in Users :
            LET pending == getPendingRequestsForUser(u)
                mine == {i \in 1..Len(requests) :
                            requests[i].toUserId = u /\ requests[i].status = "pending"}
            IN  /\ Len(pending) = Cardinality(mine)
                /\ \A k \in 1..Len(pending) :
                       pending[k].toUserId = u /\ pending[k].status = "pending"
                /\ \A i \in mine : \E k \in 1..Len(pending) : pending[k] = requests[i]
                /\ \A i, j \in mine :
                       (i < j /\ requests[i] # requests[j]) =>
                           \E k, l \in 1..Len(pending) :
                               k < l /\ pending[k] = requests[i] /\ pending[l] = requests[j])
    /\ [][\A requestId \in RequestIds, newStatus \in {"accepted", "declined"} :
            updateFriendRequestStatus(requestId, newStatus) =>
                \A i \in 1..Len(requests) :
                    (requests[i].id = requestId /\ requests[i].status = "pending") =>
                        LET decided == requests'[i]
                            a == requests[i].fromUserId
                            b == requests[i].toUserId
                        IN  /\ decided.status = newStatus
                            /\ decided.fromUserId = a /\ decided.toUserId = b
                            /\ \A k \in 1..Len(getPendingRequestsForUser(b)') :
                                   getPendingRequestsForUser(b)'[k] # decided
                            /\ findExistingRequest(a, b)' # decided
                            /\ findExistingRequest(b, a)' # decided]_vars

\* One of two requests to the same user was accepted; the other is still
\* pending and is the only one listed for that user
C32_Witness ==
    \E i, j \in 1..Len(requests) :
        /\ requests[i].status = "accepted"
        /\ requests[j].status = "pending"
        /\ requests[i].toUserId = requests[j].toUserId
        /\ requests[i].fromUserId # requests[i].toUserId
        /\ getPendingRequestsForUser(requests[i].toUserId) = <<requests[j]>>
        /\ findExistingRequest(requests[i].fromUserId, requests[i].toUserId) # requests[i]

\* C33: messages are append-only. addMessageToConversation on a stored
\* conversation adds exactly one message, as the last one, with the senderId,
\* senderName and text given; the messages stored before keep their content
\* and order and every other conversation is unchanged; and no operation
\* changes or removes a stored message
C33_MessagesAppendOnly ==
    [][ /\ \A conversationId \in ConversationIds, message \in Messages, r \in TailStr :
             \A i \in 1..Len(conversations) :
                 ( /\ addMessageToConversation(conversationId, message, r)
                   /\ conversations[i].id = conversationId )
                 => /\ Len(conversations') = Len(conversations)
                    /\ Len(conversations'[i].messages) = Len(conversations[i].messages) + 1
                    /\ SubSeq(conversations'[i].messages, 1, Len(conversations[i].messages))
                           = conversations[i].messages
                    /\ LET added == conversations'[i].messages[Len(conversations'[i].messages)]
                       IN  /\ added.senderId = message.senderId
                           /\ added.senderName = message.senderName
                           /\ added.text = message.text
                    /\ \A j \in 1..Len(conversations) :
                           j # i => conversations'[j] = conversations[j]
        /\ \A i \in 1..Len(conversations) :
             /\ i <= Len(conversations')
             /\ conversations'[i].id = conversations[i].id
             /\ Len(conversations'[i].messages) >= Len(conversations[i].messages)
             /\ SubSeq(conversations'[i].messages, 1, Len(conversations[i].messages))
                    = conversations[i].messages ]_vars

\* A conversation holds two messages of different senders, appended in
\* different milliseconds, beside a conversation without messages
C33_Witness ==
    \E i, j \in 1..Len(conversations) :
        /\ Len(conversations[i].messages) = 2
        /\ conversations[i].messages[1].senderId # conversations[i].messages[2].senderId
        /\ conversations[i].messages[1].createdAt < conversations[i].messages[2].createdAt
        /\ conversations[j].messages = <<>>

\* The conversation of the result stored under the id of a friend
MigratedFor(result, friendId) ==
    {c \in 1..Len(result) : result[c].id = getConversationId(CurrentUser, friendId)}

\* Every legacy entry with messages has one conversation under
\* getConversationId(currentUserId, friendId) with the messages in the legacy
\* order and number, sender 'me' as currentUserId and any other as friendId;
\* entries without messages have none
MigrationKeepsMessages(oldChatMessages, result) ==
    /\ Len(result) = Cardinality({k \in 1..Len(oldChatMessages) :
                                      oldChatMessages[k][2] # <<>>})
    /\ \A k \in 1..Len(oldChatMessages) :
           LET friendId == oldChatMessages[k][1]
               messages == oldChatMessages[k][2]
           IN  IF messages = <<>>
               THEN MigratedFor(result, friendId) = {}
               ELSE /\ Cardinality(MigratedFor(result, friendId)) = 1
                    /\ \A c \in MigratedFor(result, friendId) :
                           /\ Len(result[c].messages) = Len(messages)
                           /\ \A j \in 1..Len(messages) :
                                  /\ result[c].messages[j].text = messages[j].text
                                  /\ result[c].messages[j].senderId =
                                         IF messages[j].sender = "me"
                                         THEN CurrentUser ELSE friendId

\* The createdAt values of a migrated conversation are 60 seconds apart, the
\* last one 60 seconds before a reading of the clock during the call and
\* equal to lastMessageAt
MinuteApart(conversation, from, to) ==
    LET messages == conversation.messages
        last == messages[Len(messages)]
    IN  /\ \A j \in 1..(Len(messages) - 1) :
               messages[j + 1].createdAt - messages[j].createdAt = 60000
        /\ \E t \in from..to : last.createdAt = t - 60000
        /\ conversation.lastMessageAt = <<last.createdAt>>

\* C34: migrateOldChatMessages produces, for each legacy entry with messages,
\* one conversation keyed by getConversationId(currentUserId, friendId) whose
\* messages keep the legacy order and count, with sender 'me' mapped to
\* currentUserId and any other sender to friendId, and whose createdAt values
\* are exactly 60 seconds apart, the last one 60 seconds before 'now' and
\* equal to lastMessageAt; entries with empty arrays produce no conversation
C34_MigrationMinuteApart ==
    "migrated" \in DOMAIN returned =>
        /\ MigrationKeepsMessages(returned.oldChatMessages, returned.migrated)
        /\ \A c \in 1..Len(returned.migrated) :
               MinuteApart(returned.migrated[c], returned.reads[1],
                           returned.reads[Len(returned.reads)])

\* C35: the collections do not interfere. The four components store under
\* four different keys, and every operation writes at most the collection of
\* its own component: a collection changes only in a step of an operation of
\* its component, and that step leaves the other three collections as they
\* were. (The query operations contain no write; they are state functions
\* here.)
C35_CollectionsDoNotInterfere ==
    [][ /\ \A c, d \in DOMAIN StorageKey : c # d => StorageKey[c] # StorageKey[d]
        /\ invites' # invites =>
               /\ CreateInvite \/ MarkInviteAsUsed
               /\ UNCHANGED <<requests, updates, conversations>>
        /\ requests' # requests =>
               /\ CreateFriendRequest \/ UpdateFriendRequestStatus
               /\ UNCHANGED <<invites, updates, conversations>>
        /\ updates' # updates =>
               /\ \/ EmitJoinRequestUpdate
                  \/ ResolveUpdate
                  \/ ResolveUpdatesByEvent
                  \/ ResolveUpdatesByEventAndType
               /\ UNCHANGED <<invites, requests, conversations>>
        /\ conversations' # conversations =>
               /\ \/ GetOrCreateConversation
                  \/ AddMessageToConversation
                  \/ MarkConversationAsRead
               /\ UNCHANGED <<invites, requests, updates>> ]_vars

\* An invite was used and an update resolved, by operations of two
\* components, while the storage works
C35_Witness ==
    /\ ~setItemThrows
    /\ Len(invites) = 1 /\ invites[1].status = "used"
    /\ Len(updates) = 1 /\ updates[1].resolved
    /\ requests = <<>>
    /\ conversations = <<>>

\* C36: getConversationId is injective on unordered pairs, also for user ids
\* that contain '_': two different pairs of users never get the same
\* conversation id, so the conversation stored under the id of a pair is the
\* conversation of that pair
C36_ConversationIdInjective ==
    \A a \in SeparatorUsers, b \in SeparatorUsers :
        LET conversation == conversationOf(conversations, getConversationId(a, b))
        IN  conversation # Null => conversation.participantIds = sortedIds(a, b)

\* C37: in every reachable state of the conversation store, lastMessageAt of a
\* conversation is null exactly when the conversation has no messages, and
\* otherwise it is the createdAt of the last message, which no other message
\* of the conversation exceeds
C37_LastMessageAtIsLastCreatedAt ==
    \A i \in 1..Len(conversations) :
        LET conversation == conversations[i]
            length == Len(conversation.messages)
        IN  /\ conversation.lastMessageAt = Absent <=> length = 0
            /\ length > 0 =>
                   /\ conversation.lastMessageAt = <<conversation.messages[length].createdAt>>
                   /\ \A k \in 1..length :
                          conversation.messages[k].createdAt <= conversation.messages[length].createdAt

C37_Witness ==
    /\ Len(conversations) = 2
    /\ Len(conversations[1].messages) = 2
    /\ conversations[1].messages[1].createdAt < conversations[1].messages[2].createdAt
    /\ conversations[1].lastMessageAt = <<conversations[1].messages[2].createdAt>>
    /\ Len(conversations[2].messages) = 0
    /\ conversations[2].lastMessageAt = Absent

\* C38: a message of the other participant appended to a conversation that was
\* marked read makes the conversation unread for the reader, also when the
\* clock has not advanced since the read: isConversationUnread is true and
\* getUnreadConversationCount counts the conversation, and this stays so
\* while no message is added and the conversation is not marked read again
C38_MessageAfterReadIsUnread ==
    [][ \A c \in ConversationIds : \A user \in ConvUsers :
          LET before == conversationOf(conversations, c)
              after == conversationOf(conversations', c)
          IN  /\ ( /\ before # Null
                   /\ before.lastReadAt # Absent
                   /\ AddMessage(c)
                   /\ \E k \in 1..Len(before.participantIds) : before.participantIds[k] = user
                   /\ \E k \in 1..Len(before.participantIds) :
                          before.participantIds[k] = after.messages[Len(after.messages)].senderId
                   /\ after.messages[Len(after.messages)].senderId # user )
                 => /\ isConversationUnread(after, user)
                    /\ getUnreadConversationCount(user)' > 0
                    /\ \E k \in 1..getUnreadConversationCount(user)' :
                           unreadConversations(user)'[k] = after
              /\ ( /\ before # Null
                   /\ after # Null
                   /\ isConversationUnread(before, user)
                   /\ after.messages = before.messages
                   /\ after.lastReadAt = before.lastReadAt )
                 => isConversationUnread(after, user) ]_vars

\* C39: a read fault does not destroy data: when the read of a collection
\* fails inside createInvite, createFriendRequest, addEventUpdate or
\* resolveUpdate, every record persisted in the collection before the call is
\* still persisted after it (an update possibly with its resolved flag set)
C39_ReadFaultKeepsRecords ==
    [][ getItemThrows =>
          /\ \A i \in 1..Len(invites) : \E j \in 1..Len(invites') : invites'[j] = invites[i]
          /\ \A i \in 1..Len(requests) : \E j \in 1..Len(requests') : requests'[j] = requests[i]
          /\ \A i \in 1..Len(updates) : \E j \in 1..Len(updates') :
                 [updates'[j] EXCEPT !.resolved = updates[i].resolved] = updates[i] ]_vars

\* C40: in every reachable state of the invite ledger an invite carries
\* usedByUserId and usedAt exactly when its status is used; an active invite
\* carries neither of the two
C40_UsedFieldsIffUsed ==
    \A i \in 1..Len(invites) :
        /\ invites[i].status \in {"active", "used"}
        /\ ("usedByUserId" \in DOMAIN invites[i] /\ "usedAt" \in DOMAIN invites[i])
               <=> invites[i].status = "used"
        /\ invites[i].status = "active" =>
               /\ "usedByUserId" \notin DOMAIN invites[i]
               /\ "usedAt" \notin DOMAIN invites[i]
        /\ invites[i].status = "used" =>
               /\ invites[i].usedByUserId \in Users
               /\ invites[i].usedAt \in 1..MaxClock

C40_Witness ==
    /\ Len(invites) = 2
    /\ invites[1].status = "used"
    /\ invites[1].usedByUserId \in Users
    /\ invites[1].usedAt > invites[1].createdAt
    /\ invites[2].status = "active"
    /\ DOMAIN invites[2] = {"id", "token", "fromUserId", "fromUserName", "createdAt", "status"}

====
